---- MODULE Spec2Model ----
(***************************************************************************)
(* Model of ddns_update.py: a cron-driven public-IP checker and            *)
(* Dynamic-DNS updater.  One run of main() is a sequence of steps          *)
(*   current_ip -> stored_ip -> compare -> update_dyndns -> write_ip       *)
(* and the cache file (IP_FILE) is the only state that survives a run.     *)
(*                                                                         *)
(* Text is modelled as a sequence of one-character strings.  LF is the     *)
(* line feed, SP a blank and XFF a byte that is not valid UTF-8.           *)
(***************************************************************************)
EXTENDS Integers, Sequences, FiniteSets, TLC

\* Number of process runs (cron invocations) explored.
MaxRuns == 3

LF  == "\n"
SP  == " "
XFF == "xFF"

Digits     == {"0", "1", "2", "3", "4", "5", "6", "7", "8", "9"}
Whitespace == {SP, LF}

\* Python's None, as returned by stored_ip.
None == <<"None">>

-----------------------------------------------------------------------------
(* Addresses and texts used as inputs *)

IP_A == <<"1", ".", "2", ".", "3", ".", "4">>
IP_B == <<"1", ".", "2", ".", "3", ".", "4", "5">>
IP_C == <<"2", "0", "3", ".", "0", ".", "1", "1", "3", ".", "5">>

\* Addresses the host can have.
RemoteIps == {IP_A, IP_B, IP_C}

\* Bodies the address service can answer with while the host has address ip.
Bodies(ip) ==
    { ip \o <<LF>>,                          \* the usual answer
      <<SP>> \o ip \o <<SP, LF>>,            \* surrounded by whitespace
      <<"n", "o", "t", "-", "a", "n", "-", "i", "p">>,
      <<"1", ".", "2", ".", "3">>,           \* three groups only
      <<"1", "2", "3", "4", ".", "1", ".", "1", ".", "1">>,
      <<>> }

\* States of the cache path.
Missing      == [kind |-> "missing", data |-> <<>>]
Directory    == [kind |-> "dir", data |-> <<>>]
Regular(txt) == [kind |-> "file", data |-> txt]

Contents ==
    { <<>>,                                  \* empty file
      <<LF>>,                                \* one empty line
      IP_A \o <<LF>>,
      IP_B \o <<LF>>,
      IP_C \o <<LF>>,
      IP_A,                                  \* no trailing newline
      <<SP, SP>> \o IP_A \o <<SP, LF>>,      \* one line with whitespace
      IP_A \o <<LF, LF>>,                    \* second line empty
      IP_C \o <<LF>> \o IP_A \o <<LF>>,      \* two lines
      IP_A \o <<LF>> \o IP_B \o <<LF>>,
      <<"x", LF>>,                           \* one invalid line
      <<"1", ".", "2", ".", "3", LF>>,
      <<XFF, LF>>,                           \* not decodable
      IP_A \o <<LF, XFF>> }

FileStates == {Missing, Directory} \cup {Regular(c) : c \in Contents}

-----------------------------------------------------------------------------
(* Pure helpers: str.strip, str.splitlines, _IPv4_RE.fullmatch *)

RECURSIVE lstrip(_)
lstrip(s) ==
    IF s # <<>> /\ Head(s) \in Whitespace THEN lstrip(Tail(s)) ELSE s

RECURSIVE rstrip(_)
rstrip(s) ==
    IF s # <<>> /\ s[Len(s)] \in Whitespace
    THEN rstrip(SubSeq(s, 1, Len(s) - 1))
    ELSE s

strip(s) == rstrip(lstrip(s))

RECURSIVE SplitAcc(_, _)
SplitAcc(s, acc) ==
    IF s = <<>> THEN (IF acc = <<>> THEN <<>> ELSE <<acc>>)
    ELSE IF Head(s) = LF THEN <<acc>> \o SplitAcc(Tail(s), <<>>)
    ELSE SplitAcc(Tail(s), Append(acc, Head(s)))

\* A split on LF that keeps the empty text after a final line feed.
RECURSIVE SplitKeepLast(_, _)
SplitKeepLast(s, acc) ==
    IF s = <<>> THEN <<acc>>
    ELSE IF Head(s) = LF THEN <<acc>> \o SplitKeepLast(Tail(s), <<>>)
    ELSE SplitKeepLast(Tail(s), Append(acc, Head(s)))

splitlines_split(s) == SplitKeepLast(s, <<>>)

splitlines(s) == SplitAcc(s, <<>>)

\* \d{1,3} starting after position i: the positions where the group can end.
DigitRun(s, i) ==
    { j \in (i + 1)..(i + 3) :
         j <= Len(s) /\ \A k \in (i + 1)..j : s[k] \in Digits }

\* (?:\.\d{1,3}) starting after any position of P.
DotGroup(s, P) ==
    UNION { DigitRun(s, p + 1) :
              p \in { q \in P : q + 1 <= Len(s) /\ s[q + 1] = "." } }

\* The pattern with {2,3} in place of {3}.
IPv4_RE_TwoOrThree(s) ==
    Len(s) \in DotGroup(s, DotGroup(s, DigitRun(s, 0)))
               \cup DotGroup(s, DotGroup(s, DotGroup(s, DigitRun(s, 0))))

\* _IPv4_RE.fullmatch(s) for ^\d{1,3}(?:\.\d{1,3}){3}$
IPv4_RE(s) ==
    Len(s) \in DotGroup(s, DotGroup(s, DotGroup(s, DigitRun(s, 0))))

-----------------------------------------------------------------------------
(* File and network primitives *)

\* Path.read_text(): the text, or the exception it raises.
read_text(f) ==
    IF f.kind = "missing" THEN [exc |-> "FileNotFoundError", text |-> <<>>]
    ELSE IF f.kind = "dir" THEN [exc |-> "IsADirectoryError", text |-> <<>>]
    ELSE IF \E i \in 1..Len(f.data) : f.data[i] = XFF
         THEN [exc |-> "UnicodeDecodeError", text |-> <<>>]
    ELSE [exc |-> "none", text |-> f.data]

\* stored_ip(file_path): the value returned, or the exception that escapes.
stored_ip(f) ==
    LET r == read_text(f) IN
    IF r.exc = "FileNotFoundError" THEN [exc |-> "none", val |-> None]
    ELSE IF r.exc # "none" THEN [exc |-> r.exc, val |-> None]
    ELSE LET lines == splitlines(r.text) IN
         IF Len(lines) # 1 THEN [exc |-> "none", val |-> None]
         ELSE LET ip == strip(lines[1]) IN
              IF IPv4_RE(ip) THEN [exc |-> "none", val |-> ip]
              ELSE [exc |-> "none", val |-> None]

\* write_ip writing ip + "\n\n".
write_ip_double_newline(f, ip) ==
    LET data == ip \o <<LF, LF>> IN
    { [exc |-> "OSError", file |-> f, written |-> -1] }
    \cup
    ( IF f.kind = "dir" THEN {}
      ELSE { [exc |-> "none", file |-> Regular(data), written |-> Len(data)] }
           \cup
           { [exc |-> "OSError", file |-> Regular(SubSeq(data, 1, k)),
              written |-> k] : k \in 0..(Len(data) - 1) } )

\* write_ip opening the file for append instead of overwriting it.
write_ip_append(f, ip) ==
    LET data == ip \o <<LF>> IN
    { [exc |-> "OSError", file |-> f, written |-> -1] }
    \cup
    ( IF f.kind = "dir" THEN {}
      ELSE { [exc |-> "none", file |-> Regular(f.data \o data),
              written |-> Len(data)] }
           \cup
           { [exc |-> "OSError", file |-> Regular(f.data \o SubSeq(data, 1, k)),
              written |-> k] : k \in 0..(Len(data) - 1) } )

\* write_ip(file_path, ip): Path.write_text(ip + "\n") opens the file for
\* writing, which truncates it, and then writes.  The outcomes are: the whole
\* text written; the open refused (file as it was, written = -1); the write
\* cut short after `written` characters (disk full, file size limit).
write_ip(f, ip) ==
    LET data == ip \o <<LF>> IN
    { [exc |-> "OSError", file |-> f, written |-> -1] }
    \cup
    ( IF f.kind = "dir" THEN {}
      ELSE { [exc |-> "none", file |-> Regular(data), written |-> Len(data)] }
           \cup
           { [exc |-> "OSError", file |-> Regular(SubSeq(data, 1, k)),
              written |-> k] : k \in 0..(Len(data) - 1) } )

\* _curl(url): check_output(...).decode().strip() for a server that would
\* answer with body.  CalledProcessError and TimeoutExpired become
\* sys.exit(message); a body that does not decode raises out of _curl.
curl(body) ==
    { [exc |-> "none", out |-> strip(body)],
      [exc |-> "SystemExit", out |-> <<>>],
      [exc |-> "UnicodeDecodeError", out |-> <<>>] }

-----------------------------------------------------------------------------
VARIABLES
    pc,          \* position of the process: scheduled, a step of main, exited
    file,        \* the cache file IP_FILE
    remoteIp,    \* the address the host has
    notifiedIp,  \* the address the host had when update_dyndns last returned
    fetched,     \* what _curl(CHECK_IP_URL) returned or raised in this run
    cur,         \* main: cur
    prev,        \* main: prev
    status,      \* exit status of the run; -1 while it has not ended
    exc,         \* what ended the run: none, SystemExit or an exception
    branch,      \* none, UNCHANGED or CHANGED
    run,         \* number of runs started
    fetchOk,     \* current_ip returned
    cacheRead,   \* stored_ip was called
    loaded,      \* stored_ip returned
    notifyCalls, \* calls of update_dyndns in this run
    notifyOk,    \* update_dyndns returned
    writeCalls,  \* calls of write_ip in this run
    written,     \* characters write_ip put in the file; -1: none, open refused
    file0,       \* the cache file when the run started
    last,        \* summary of the previous run
    initClean,   \* the cache was missing or one valid line initially
    initSync,    \* the cache, if usable, held notifiedIp initially
    truncated    \* the file content was left by a write that was cut short

runv == <<fetched, cur, prev, status, exc, branch, fetchOk, cacheRead, loaded,
          notifyCalls, notifyOk, writeCalls, written, file0>>
vars == <<pc, file, remoteIp, notifiedIp, run, last, initClean, initSync,
          truncated, runv>>

\* The Cache Record invariant of the data model.
CacheRecordOK(f) ==
    \/ f.kind = "missing"
    \/ /\ stored_ip(f).exc = "none"
       /\ stored_ip(f).val # None

NoRun ==
    [valid |-> FALSE, cur |-> None, prev |-> None, status |-> -1,
     branch |-> "none", fetchOk |-> FALSE, loaded |-> FALSE,
     notifyCalls |-> 0, notifyOk |-> FALSE, writeCalls |-> 0, written |-> -1,
     exc |-> "none"]

RunSummary ==
    [valid |-> TRUE, cur |-> cur, prev |-> prev, status |-> status,
     branch |-> branch, fetchOk |-> fetchOk, loaded |-> loaded,
     notifyCalls |-> notifyCalls, notifyOk |-> notifyOk,
     writeCalls |-> writeCalls, written |-> written, exc |-> exc]

NotFetched == [exc |-> "none", out |-> None]

FreshRun ==
    /\ fetched = NotFetched
    /\ cur = None
    /\ prev = None
    /\ status = -1
    /\ exc = "none"
    /\ branch = "none"
    /\ fetchOk = FALSE
    /\ cacheRead = FALSE
    /\ loaded = FALSE
    /\ notifyCalls = 0
    /\ notifyOk = FALSE
    /\ writeCalls = 0
    /\ written = -1

Init ==
    /\ pc = "scheduled"
    /\ file \in FileStates
    /\ remoteIp \in RemoteIps
    /\ notifiedIp \in RemoteIps \cup {None}
    /\ run = 0
    /\ last = NoRun
    /\ initClean = CacheRecordOK(file)
    /\ initSync = (stored_ip(file).val # None => stored_ip(file).val = notifiedIp)
    /\ truncated = FALSE
    /\ file0 = file
    /\ FreshRun

\* The process ends with exit status st because of e.
Terminate(st, e) ==
    /\ pc' = "exited"
    /\ status' = st
    /\ exc' = e

\* Between runs the host's address changes.
RemoteChanges ==
    /\ pc \in {"scheduled", "exited"}
    /\ remoteIp' \in RemoteIps \ {remoteIp}
    /\ UNCHANGED <<pc, file, notifiedIp, run, last, initClean, initSync,
                   truncated, runv>>

\* cron starts the script: if __name__ == "__main__": main()
StartRun ==
    /\ pc \in {"scheduled", "exited"}
    /\ run < MaxRuns
    /\ run' = run + 1
    /\ last' = IF run = 0 THEN NoRun ELSE RunSummary
    /\ pc' = "current_ip"
    /\ file0' = file
    /\ fetched' = NotFetched
    /\ cur' = None
    /\ prev' = None
    /\ status' = -1
    /\ exc' = "none"
    /\ branch' = "none"
    /\ fetchOk' = FALSE
    /\ cacheRead' = FALSE
    /\ loaded' = FALSE
    /\ notifyCalls' = 0
    /\ notifyOk' = FALSE
    /\ writeCalls' = 0
    /\ written' = -1
    /\ UNCHANGED <<file, remoteIp, notifiedIp, initClean, initSync, truncated>>

\* cur = current_ip()
CurrentIp ==
    /\ pc = "current_ip"
    /\ \E body \in Bodies(remoteIp) : \E r \in curl(body) :
         /\ fetched' = r
         /\ IF r.exc # "none"
            THEN /\ Terminate(1, r.exc)
                 /\ UNCHANGED <<cur, fetchOk>>
            ELSE IF ~IPv4_RE(r.out)
            THEN /\ Terminate(1, "SystemExit")
                 /\ UNCHANGED <<cur, fetchOk>>
            ELSE /\ cur' = r.out
                 /\ fetchOk' = TRUE
                 /\ pc' = "stored_ip"
                 /\ UNCHANGED <<status, exc>>
    /\ UNCHANGED <<file, remoteIp, notifiedIp, run, last, initClean, initSync,
                   truncated, prev, branch, cacheRead, loaded, notifyCalls,
                   notifyOk, writeCalls, written, file0>>

\* prev = stored_ip(Path(IP_FILE))
StoredIp ==
    /\ pc = "stored_ip"
    /\ cacheRead' = TRUE
    /\ LET r == stored_ip(file) IN
         IF r.exc # "none"
         THEN /\ Terminate(1, r.exc)
              /\ UNCHANGED <<prev, loaded>>
         ELSE /\ prev' = r.val
              /\ loaded' = TRUE
              /\ pc' = "compare"
              /\ UNCHANGED <<status, exc>>
    /\ UNCHANGED <<file, remoteIp, notifiedIp, run, last, initClean, initSync,
                   truncated, fetched, cur, branch, fetchOk, notifyCalls,
                   notifyOk, writeCalls, written, file0>>

\* main without the early return: the update is triggered on every run.
Compare_NoEarlyReturn ==
    /\ pc = "compare"
    /\ branch' = "CHANGED"
    /\ pc' = "update_dyndns"
    /\ UNCHANGED <<status, exc>>
    /\ UNCHANGED <<file, remoteIp, notifiedIp, run, last, initClean, initSync,
                   truncated, fetched, cur, prev, fetchOk, cacheRead, loaded,
                   notifyCalls, notifyOk, writeCalls, written, file0>>

\* main storing the address without calling update_dyndns first.
Compare_SkipNotify ==
    /\ pc = "compare"
    /\ IF prev = cur
       THEN /\ branch' = "UNCHANGED"
            /\ Terminate(0, "none")
       ELSE /\ branch' = "CHANGED"
            /\ pc' = "write_ip"
            /\ UNCHANGED <<status, exc>>
    /\ UNCHANGED <<file, remoteIp, notifiedIp, run, last, initClean, initSync,
                   truncated, fetched, cur, prev, fetchOk, cacheRead, loaded,
                   notifyCalls, notifyOk, writeCalls, written, file0>>

\* main treating a missing or unusable cache as "unchanged".
Compare_NoneIsUnchanged ==
    /\ pc = "compare"
    /\ IF prev = cur \/ prev = None
       THEN /\ branch' = "UNCHANGED"
            /\ Terminate(0, "none")
       ELSE /\ branch' = "CHANGED"
            /\ pc' = "update_dyndns"
            /\ UNCHANGED <<status, exc>>
    /\ UNCHANGED <<file, remoteIp, notifiedIp, run, last, initClean, initSync,
                   truncated, fetched, cur, prev, fetchOk, cacheRead, loaded,
                   notifyCalls, notifyOk, writeCalls, written, file0>>

\* if prev == cur: print(...); return
Compare ==
    /\ pc = "compare"
    /\ IF prev = cur
       THEN /\ branch' = "UNCHANGED"
            /\ Terminate(0, "none")
       ELSE /\ branch' = "CHANGED"
            /\ pc' = "update_dyndns"
            /\ UNCHANGED <<status, exc>>
    /\ UNCHANGED <<file, remoteIp, notifiedIp, run, last, initClean, initSync,
                   truncated, fetched, cur, prev, fetchOk, cacheRead, loaded,
                   notifyCalls, notifyOk, writeCalls, written, file0>>

\* update_dyndns with a _curl whose failure does not end the process.
UpdateDyndns_IgnoreFailure ==
    /\ pc = "update_dyndns"
    /\ notifyCalls' = notifyCalls + 1
    /\ \E r \in curl(<<"g", "o", "o", "d", LF>>) :
         IF r.exc # "none"
         THEN /\ pc' = "write_ip"
              /\ UNCHANGED <<notifyOk, notifiedIp, status, exc>>
         ELSE /\ notifyOk' = TRUE
              /\ notifiedIp' = remoteIp
              /\ pc' = "write_ip"
              /\ UNCHANGED <<status, exc>>
    /\ UNCHANGED <<file, remoteIp, run, last, initClean, initSync, truncated,
                   fetched, cur, prev, branch, fetchOk, cacheRead, loaded,
                   writeCalls, written, file0>>

\* update_dyndns(): response = _curl(DYNDNS_URL); print(...)
UpdateDyndns ==
    /\ pc = "update_dyndns"
    /\ notifyCalls' = notifyCalls + 1
    /\ \E r \in curl(<<"g", "o", "o", "d", LF>>) :
         IF r.exc # "none"
         THEN /\ Terminate(1, r.exc)
              /\ UNCHANGED <<notifyOk, notifiedIp>>
         ELSE /\ notifyOk' = TRUE
              /\ notifiedIp' = remoteIp
              /\ pc' = "write_ip"
              /\ UNCHANGED <<status, exc>>
    /\ UNCHANGED <<file, remoteIp, run, last, initClean, initSync, truncated,
                   fetched, cur, prev, branch, fetchOk, cacheRead, loaded,
                   writeCalls, written, file0>>

\* write_ip(Path(IP_FILE), cur); print("[INFO] Stored IP updated.")
WriteIp ==
    /\ pc = "write_ip"
    /\ writeCalls' = writeCalls + 1
    /\ \E r \in write_ip(file, cur) :
         /\ file' = r.file
         /\ IF r.exc # "none"
            THEN /\ Terminate(1, r.exc)
                 /\ truncated' = IF r.written >= 0 THEN TRUE ELSE truncated
            ELSE /\ Terminate(0, "none")
                 /\ truncated' = FALSE
         /\ written' = r.written
    /\ UNCHANGED <<remoteIp, notifiedIp, run, last, initClean, initSync,
                   fetched, cur, prev, branch, fetchOk, cacheRead, loaded,
                   notifyCalls, notifyOk, file0>>

Next ==
    \/ RemoteChanges
    \/ StartRun
    \/ CurrentIp
    \/ StoredIp
    \/ Compare
    \/ UpdateDyndns
    \/ WriteIp

Spec == Init /\ [][Next]_vars

-----------------------------------------------------------------------------
(* The cache store on its own: write_ip and stored_ip called on any state  *)
(* of the cache path with any valid address.                               *)

InitCache ==
    /\ pc = "call"
    /\ file \in FileStates
    /\ remoteIp = IP_A
    /\ notifiedIp = None
    /\ run = 0
    /\ last = NoRun
    /\ initClean = CacheRecordOK(file)
    /\ initSync = TRUE
    /\ truncated = FALSE
    /\ file0 = file
    /\ fetched = NotFetched
    /\ cur \in RemoteIps
    /\ prev = None
    /\ status = -1
    /\ exc = "none"
    /\ branch = "none"
    /\ fetchOk = FALSE
    /\ cacheRead = FALSE
    /\ loaded = FALSE
    /\ notifyCalls = 0
    /\ notifyOk = FALSE
    /\ writeCalls = 0
    /\ written = -1

\* write_ip(path, cur)
CallWriteIp ==
    /\ pc = "call"
    /\ writeCalls' = writeCalls + 1
    /\ \E r \in write_ip(file, cur) :
         /\ file' = r.file
         /\ written' = r.written
         /\ exc' = r.exc
         /\ pc' = IF r.exc = "none" THEN "saved" ELSE "save_raised"
    /\ UNCHANGED <<remoteIp, notifiedIp, run, last, initClean, initSync,
                   truncated, fetched, cur, prev, status, branch, fetchOk,
                   cacheRead, loaded, notifyCalls, notifyOk, file0>>

\* prev = stored_ip(path)
CallStoredIp ==
    /\ pc \in {"call", "saved"}
    /\ cacheRead' = TRUE
    /\ LET r == stored_ip(file) IN
         /\ exc' = r.exc
         /\ prev' = r.val
         /\ loaded' = (r.exc = "none")
         /\ pc' = IF r.exc = "none" THEN "returned" ELSE "load_raised"
    /\ UNCHANGED <<file, remoteIp, notifiedIp, run, last, initClean, initSync,
                   truncated, fetched, cur, status, branch, fetchOk,
                   notifyCalls, notifyOk, writeCalls, written, file0>>

NextCache ==
    \/ CallWriteIp
    \/ CallStoredIp

SpecCache == InitCache /\ [][NextCache]_vars

-----------------------------------------------------------------------------
(* Properties *)

\* C1: a run whose fetch succeeds and whose stored_ip returns the fetched
\* address takes the UNCHANGED branch: it never reaches update_dyndns or
\* write_ip, leaves the cache file as it found it and ends with status 0.
C1_UnchangedBranch ==
    (fetchOk /\ loaded /\ prev = cur) =>
        /\ pc \in {"compare", "exited"}
        /\ notifyCalls = 0
        /\ writeCalls = 0
        /\ file = file0
        /\ pc = "exited" => (branch = "UNCHANGED" /\ status = 0)

C1_Witness ==
    /\ pc = "exited"
    /\ branch = "UNCHANGED"
    /\ status = 0
    /\ cur = IP_C
    /\ file0 = Regular(IP_C \o <<LF>>)
    /\ file = file0

\* C2: a run whose fetch succeeds and whose stored_ip returns something else
\* than the fetched address (another address or None) calls update_dyndns
\* exactly once, calls write_ip only after update_dyndns has returned and at
\* most once, exactly once when update_dyndns returned, and a run that ends
\* with status 0 leaves the file holding the fetched address and one newline.
C2_ChangedBranch ==
    /\ notifyCalls <= 1
    /\ writeCalls <= 1
    /\ writeCalls = 1 => notifyOk
    /\ pc = "write_ip" => (notifyOk /\ notifyCalls = 1)
    /\ (pc = "exited" /\ fetchOk /\ loaded /\ prev # cur) =>
          /\ branch = "CHANGED"
          /\ notifyCalls = 1
          /\ notifyOk => writeCalls = 1
          /\ status = 0 => file = Regular(cur \o <<LF>>)

\* Scenario C with a line equal to the fetched address.
C2_Witness ==
    /\ pc = "exited"
    /\ status = 0
    /\ branch = "CHANGED"
    /\ file0 = Regular(IP_C \o <<LF>> \o IP_A \o <<LF>>)
    /\ cur = IP_C
    /\ prev = None
    /\ notifyCalls = 1
    /\ writeCalls = 1
    /\ file = Regular(IP_C \o <<LF>>)

\* C3: when _curl fails for the address service, or its answer is not one of
\* the well-formed addresses, the run ends with status 1 with stored_ip never
\* called, no comparison made, update_dyndns never called and the cache file
\* as it was.
C3_FetchFailure ==
    (pc \notin {"scheduled", "current_ip"}
       /\ (fetched.exc # "none" \/ fetched.out \notin RemoteIps)) =>
        /\ pc = "exited"
        /\ status = 1
        /\ ~cacheRead
        /\ branch = "none"
        /\ notifyCalls = 0
        /\ writeCalls = 0
        /\ file = file0

\* Scenario D on a cache that holds an address.
C3_Witness ==
    /\ pc = "exited"
    /\ status = 1
    /\ fetched.exc = "none"
    /\ fetched.out = <<"n", "o", "t", "-", "a", "n", "-", "i", "p">>
    /\ file0 = Regular(IP_A \o <<LF>>)
    /\ file = file0
    /\ ~cacheRead

\* C4: when the call of the update endpoint fails, the run ends at once with
\* status 1, the call was made once, write_ip is never called and the cache
\* file is as it was before the run.
C4_NotifyFailure ==
    (notifyCalls >= 1 /\ ~notifyOk /\ pc # "update_dyndns") =>
        /\ pc = "exited"
        /\ status = 1
        /\ notifyCalls = 1
        /\ writeCalls = 0
        /\ file = file0

C4_Witness ==
    /\ pc = "exited"
    /\ notifyCalls = 1
    /\ ~notifyOk
    /\ exc = "SystemExit"
    /\ status = 1
    /\ file0 = Regular(IP_A \o <<LF>>)
    /\ cur = IP_B
    /\ file = file0

\* C5: stored_ip returns for every state of the cache path: None unless the
\* file holds exactly one line that is a valid address once trimmed, and
\* that trimmed address otherwise.
C5_StoredIpTotal ==
    (pc \in {"returned", "load_raised"}) =>
        /\ pc = "returned"
        /\ exc = "none"
        /\ LET lines == splitlines(file.data) IN
             IF file.kind = "file" /\ Len(lines) = 1
                  /\ strip(lines[1]) \in RemoteIps
             THEN prev = strip(lines[1])
             ELSE prev = None

\* C6: stored_ip called after write_ip(path, addr) has returned gives addr,
\* whatever the path held before.
C6_RoundTrip ==
    (pc \in {"returned", "load_raised"} /\ writeCalls = 1) =>
        /\ pc = "returned"
        /\ prev = cur

C6_Witness ==
    /\ pc = "returned"
    /\ writeCalls = 1
    /\ file0 = Regular(IP_C \o <<LF>> \o IP_A \o <<LF>>)
    /\ cur = IP_B
    /\ prev = IP_B

\* C7: when a run ends with status 0 and the next run fetches the same
\* address, the second run takes the UNCHANGED branch with no call of
\* update_dyndns and no write; update_dyndns and write_ip were each called
\* once in the two runs when the cache did not hold the address before the
\* first run, and not at all when it did.
C7_Idempotence ==
    (pc = "exited" /\ last.valid /\ last.status = 0 /\ fetchOk
       /\ cur = last.cur) =>
        /\ branch = "UNCHANGED"
        /\ status = 0
        /\ notifyCalls = 0
        /\ writeCalls = 0
        /\ last.notifyCalls = (IF last.prev = cur THEN 0 ELSE 1)
        /\ last.writeCalls = (IF last.prev = cur THEN 0 ELSE 1)

C7_Witness ==
    /\ pc = "exited"
    /\ last.valid
    /\ last.status = 0
    /\ last.branch = "CHANGED"
    /\ last.notifyCalls = 1
    /\ last.writeCalls = 1
    /\ cur = last.cur
    /\ branch = "UNCHANGED"
    /\ notifyCalls = 0
    /\ writeCalls = 0

\* The previous run called update_dyndns with success and its write_ip raised.
LastWriteFailed ==
    /\ last.valid
    /\ last.notifyOk
    /\ last.writeCalls = 1
    /\ last.exc # "none"

\* C8 as stated: a run that notified the provider and whose cache write
\* failed ends with status 1, and the next run, fetching the same address,
\* takes the CHANGED branch and calls update_dyndns again.
C8_AtLeastOnce ==
    /\ (pc = "exited" /\ notifyOk /\ writeCalls = 1 /\ exc # "none") =>
          status = 1
    /\ (LastWriteFailed /\ pc = "exited" /\ fetchOk /\ cur = last.cur) =>
          /\ last.status = 1
          /\ branch = "CHANGED"
          /\ notifyCalls = 1

\* C8 amended: the same, unless the failed write had already put the whole
\* address in the file and only the newline was missing.
C8_AtLeastOnceUnlessComplete ==
    /\ (pc = "exited" /\ notifyOk /\ writeCalls = 1 /\ exc # "none") =>
          status = 1
    /\ (LastWriteFailed /\ pc = "exited" /\ fetchOk /\ cur = last.cur
          /\ last.written < Len(last.cur)) =>
          /\ last.status = 1
          /\ branch = "CHANGED"
          /\ notifyCalls = 1
    /\ (LastWriteFailed /\ pc = "exited" /\ fetchOk /\ cur = last.cur
          /\ last.written = Len(last.cur)) =>
          /\ branch = "UNCHANGED"
          /\ notifyCalls = 0

C8_Witness ==
    /\ LastWriteFailed
    /\ last.written = 0
    /\ last.status = 1
    /\ pc = "exited"
    /\ cur = last.cur
    /\ branch = "CHANGED"
    /\ notifyCalls = 1
    /\ notifyOk

\* A run that ended with status 0 on a cache that was not a valid record
\* leaves the file holding the fetched address and one newline.
SelfHeal ==
    (pc = "exited" /\ status = 0 /\ ~CacheRecordOK(file0)) =>
        /\ file = Regular(cur \o <<LF>>)
        /\ CacheRecordOK(file)

\* C9 as stated: from a cache that is missing or one valid line, the file is
\* missing or one valid line after any sequence of runs, failed ones
\* included; and a successful run on a malformed cache leaves a clean one.
C9_CacheRecordInvariant ==
    /\ initClean => CacheRecordOK(file)
    /\ SelfHeal

\* C9 amended: the file is missing, one valid line, or, only after a cache
\* write that was cut short, a beginning of the line that was being written.
C9_CacheRecordUnlessTruncated ==
    /\ initClean =>
          \/ CacheRecordOK(file)
          \/ /\ truncated
             /\ \E ip \in RemoteIps : \E k \in 0..Len(ip) :
                   file = Regular(SubSeq(ip, 1, k))
    /\ SelfHeal

\* A clean cache, a write cut short, and the next run repairing the file.
C9_Witness ==
    /\ initClean
    /\ last.valid
    /\ last.writeCalls = 1
    /\ last.written >= 0
    /\ last.status = 1
    /\ ~CacheRecordOK(file0)
    /\ pc = "exited"
    /\ status = 0
    /\ file = Regular(cur \o <<LF>>)

\* C10: when the cache, if usable, initially records the address the provider
\* was last notified for, every run that ends with status 0 has fetched the
\* address the host had at the most recent successful call of update_dyndns.
C10_ProviderInSync ==
    (initSync /\ pc = "exited" /\ status = 0) => notifiedIp = cur

====
